---- MODULE Spec2Model ----
(***************************************************************************)
(* Model of src/bot.py: the monitor loop of the scoreboard watcher.        *)
(*                                                                         *)
(* A monitor_services task polls the score API, compares each service      *)
(* against the stored baseline, sends alert messages, replaces the         *)
(* baseline and sleeps.  The variables are the module global               *)
(* last_service_states, the locals of the monitor_services task in hand,   *)
(* the position of that task in the loop body, the messages that reached   *)
(* the channel, and the locals of the other tasks that on_ready created.   *)
(***************************************************************************)
EXTENDS Integers, Sequences, FiniteSets, TLC

(***************************************************************************)
(* The universe the polls are drawn from.                                  *)
(***************************************************************************)
\* Tick identifiers are the first key of the payload; NumTicks bounds them.
NumTicks == 2
Ticks == 1..NumTicks

\* Service names, in the order the payload lists them.
ServiceOrder == <<"a", "b">>
Services == {ServiceOrder[i] : i \in 1..Len(ServiceOrder)}

Checkers == {"SUCCESS", "RECOVERING", "OFFLINE", "MUMBLE"}

\* An optional number (a score or a delta that may be None) is a sequence of
\* length 0 or 1: None is <<>>, the float x is <<x>>.
None == <<>>
Some(x) == <<x>>
Val(o) == o[1]

\* last_tick = None: no tick id has been processed yet.
NoTick == 0

\* One service entry of a payload: {checker, components: {attack, defense}}.
\* Four readings of a service: every checker status occurs, the attack scores
\* step by 20, 5 and -5 and the defense scores by 0 and 20, so that deltas on
\* both sides of both thresholds arise.
ServiceInfos ==
    {[checker |-> "SUCCESS",    attack |-> 0,  defense |-> 0],
     [checker |-> "RECOVERING", attack |-> 20, defense |-> 0],
     [checker |-> "OFFLINE",    attack |-> 25, defense |-> 20],
     [checker |-> "MUMBLE",     attack |-> 20, defense |-> 20]}

\* The service mappings a payload can carry (the empty one included).
Payloads ==
    UNION {[D -> ServiceInfos] : D \in SUBSET Services}

\* What fetch_score_data can return: None or {} (both <<>>), or a document
\* with one tick key over a service mapping.
TeamDatas ==
    {<<>>} \cup {(t :> p) : t \in Ticks, p \in Payloads}

\* ATK_DEF_DROP_PERCENTAGE_THRESHOLD = 0.5 as the fraction Num/Den.
ThresholdNum == 1
ThresholdDen == 2
\* ATK_DEF_MIN_SCORE_THRESHOLD = 10.0
ATK_DEF_MIN_SCORE_THRESHOLD == 10

VARIABLES
    last_service_states,     \* global: service -> [checker, attack, defense]
    prev_deltas,             \* local: service -> [attack_delta, defense_delta]
    last_tick,               \* local: the tick id processed last, or None
    pc,                      \* position of the task in the loop body
    CurrTick,                \* local: tick id of the payload in hand
    current_team_services,   \* local: service mapping of the payload in hand
    current_service_states,  \* local: the mapping line 225 stores
    prev_deltas_snapshot,    \* local: copy of prev_deltas taken at line 114
    faulty_services,         \* local: list built by the checker comparison
    attack_issue_services,   \* local: list built by the attack comparison
    defense_issue_services,  \* local: list built by the defense comparison
    message,                 \* local: the message built and awaiting its send
    sent,                    \* messages delivered to the channel this iteration
    raised,                  \* where the exception that ended the task came from
    tick_services,           \* history: the payload of the last processed tick
    repeat_poll,             \* history: the payload in hand repeats last_tick
    seen,                    \* history: the service names the polls have shown
    processed,               \* history: the tick ids the comparison pass ran on
    replay,                  \* history: the run polled the processed ticks only
    task,                    \* the monitor_services task whose locals are above
    parked                   \* the locals of the other monitor_services tasks

vars == <<last_service_states, prev_deltas, last_tick, pc, CurrTick,
          current_team_services, current_service_states, prev_deltas_snapshot,
          faulty_services, attack_issue_services, defense_issue_services,
          message, sent, raised, tick_services, repeat_poll, seen, processed,
          replay, task, parked>>

\* The empty dict.
Empty == <<>>

Abs(x) == IF x < 0 THEN -x ELSE x

\* The services of a mapping in the order .items() yields them.
Items(services) == SelectSeq(ServiceOrder, LAMBDA s : s \in DOMAIN services)

\* d1 overwritten by the entries of d2 (d1[k] = v for each k, v of d2).
Overwrite(d1, d2) ==
    [k \in DOMAIN d1 \cup DOMAIN d2 |-> IF k \in DOMAIN d2 THEN d2[k] ELSE d1[k]]

(***************************************************************************)
(* Logging.  log_error calls pwnlib's log.error, which logs the message    *)
(* and then raises PwnlibException; log_info, log_success and log_warning  *)
(* only log.                                                               *)
(***************************************************************************)
log_error_raises == TRUE

(***************************************************************************)
(* The comparison pass of a new tick (lines 111-162).                      *)
(***************************************************************************)
\* The test of line 111 true only while no tick has been processed.
TickChangedOnlyFirst(lt, ct) == lt = NoTick

\* line 111: if last_tick != CurrTick
TickChanged(lt, ct) == lt /= ct

\* line 94: if not team_data  (None and {} are both falsy, and both <<>> here)
NoData(team_data) == team_data = Empty

\* line 98: list(team_data.keys())[0]; the payloads modelled carry one key.
FirstKey(team_data) == CHOOSE t \in DOMAIN team_data : TRUE

\* The test of line 100 left out.
NoServicesUnchecked(services) == FALSE

\* line 100: if not current_team_services
NoServices(services) == services = Empty

\* lines 119-120: last_service_states.get(name, {}).get(component, None)
PrevScore(states, name, component) ==
    IF name \in DOMAIN states THEN Some(states[name][component]) ELSE None

\* lines 121-122: current - prev if prev is not None else None
Delta(current, prev) ==
    IF prev /= None THEN Some(current - Val(prev)) ELSE None

\* lines 130, 139, 197, 209: snapshot.get(name, {}).get(key, None)
PrevDelta(snapshot, name, key) ==
    IF name \in DOMAIN snapshot THEN snapshot[name][key] ELSE None

\* The test of line 131 without its `prev_attack_delta != 0`.
DropComparedUnguarded(delta, prev_delta) ==
    /\ delta /= None
    /\ prev_delta /= None

\* line 131 (and 140): both deltas are numbers and the previous one is not 0.
DropCompared(delta, prev_delta) ==
    /\ delta /= None
    /\ prev_delta /= None
    /\ Val(prev_delta) /= 0

\* lines 131-133 (and 140-142): the comparison reaches the division
\* abs(delta - prev_delta) / abs(prev_delta).
Divides(delta, prev_delta) ==
    /\ DropCompared(delta, prev_delta)
    /\ Val(delta) < Val(prev_delta)

\* lines 133, 142: some service of the payload reaches the division with
\* abs(prev_delta) = 0, which raises ZeroDivisionError.
DividesByZero(snapshot, states, services) ==
    \E name \in DOMAIN services :
       \E key \in {"attack_delta", "defense_delta"} :
          LET component == IF key = "attack_delta" THEN "attack" ELSE "defense"
              delta ==
                  Delta(services[name][component],
                        PrevScore(states, name, component))
          IN  /\ Divides(delta, PrevDelta(snapshot, name, key))
              /\ Val(PrevDelta(snapshot, name, key)) = 0

\* The delta-drop test without the minimum-score guard of line 134.
DropQualifiesNoMinimum(delta, prev_delta) ==
    /\ Divides(delta, prev_delta)
    /\ Abs(Val(delta) - Val(prev_delta)) * ThresholdDen
           >= ThresholdNum * Abs(Val(prev_delta))

\* lines 131-134 (and 140-143): the delta-drop test; drop_percentage >=
\* threshold is compared after multiplying both sides by abs(prev_delta).
DropQualifies(delta, prev_delta) ==
    /\ Divides(delta, prev_delta)
    /\ Abs(Val(delta) - Val(prev_delta)) * ThresholdDen
           >= ThresholdNum * Abs(Val(prev_delta))
    /\ Abs(Val(prev_delta)) >= ATK_DEF_MIN_SCORE_THRESHOLD

\* The checker status test with a service that has no stored state taken as
\* up before.
CheckerFaultyUnknownAsUp(states, name, current_checker_status) ==
    /\ name \in DOMAIN states => states[name].checker \in {"SUCCESS", "RECOVERING"}
    /\ current_checker_status \in {"OFFLINE", "MUMBLE"}

\* lines 148-151: the checker status test against last_service_states.
CheckerFaulty(states, name, current_checker_status) ==
    /\ name \in DOMAIN states
    /\ states[name].checker \in {"SUCCESS", "RECOVERING"}
    /\ current_checker_status \in {"OFFLINE", "MUMBLE"}

\* lines 121-122, 158-161: the delta record of one service.
DeltaRecord(states, services, name) ==
    [attack_delta |->
         Delta(services[name].attack, PrevScore(states, name, "attack")),
     defense_delta |->
         Delta(services[name].defense, PrevScore(states, name, "defense"))]

\* lines 115-161: prev_deltas after the loop over the payload.
UpdatedDeltas(deltas, states, services) ==
    Overwrite(deltas,
              [name \in DOMAIN services |-> DeltaRecord(states, services, name)])

\* lines 129-135: attack_issue_services after the loop.
AttackIssues(snapshot, states, services) ==
    SelectSeq(Items(services), LAMBDA name :
        DropQualifies(DeltaRecord(states, services, name).attack_delta,
                      PrevDelta(snapshot, name, "attack_delta")))

\* lines 138-144: defense_issue_services after the loop.
DefenseIssues(snapshot, states, services) ==
    SelectSeq(Items(services), LAMBDA name :
        DropQualifies(DeltaRecord(states, services, name).defense_delta,
                      PrevDelta(snapshot, name, "defense_delta")))

\* lines 147-153: faulty_services after the loop.
FaultyServices(states, services) ==
    SelectSeq(Items(services), LAMBDA name :
        CheckerFaulty(states, name, services[name].checker))

\* A repeated poll that compared the checker statuses all the same.
RepeatFaultyCompared(states, services) == FaultyServices(states, services)

\* lines 106, 163-178: the else branch appends nothing to faulty_services.
RepeatFaulty(states, services) == <<>>

\* lines 165-173: current_service_states built by a repeated poll.
RepeatStates(services) ==
    [name \in DOMAIN services |->
        [checker |-> services[name].checker,
         attack  |-> services[name].attack,
         defense |-> services[name].defense]]

(***************************************************************************)
(* The alert messages (lines 181-222).  A message is a record of its kind  *)
(* and its lines; "@everyone" ends every message and is left out.          *)
(***************************************************************************)
\* line 187: "offline" if current_status == "OFFLINE" else "mumble"
StatusTerm(current_status) ==
    IF current_status = "OFFLINE" THEN "offline" ELSE "mumble"

\* lines 184-189: one line per faulty service.
DownMessage(faulty, services) ==
    [kind  |-> "down",
     lines |-> [i \in 1..Len(faulty) |->
                   [service |-> faulty[i],
                    term    |-> StatusTerm(services[faulty[i]].checker)]]]

\* lines 204-207: abs(percent_change) in hundredths of a percent, as :.2f
\* prints it.
PercentChange(previous_delta, current_delta) ==
    IF previous_delta /= 0
    THEN (2 * 10000 * Abs(current_delta - previous_delta) + Abs(previous_delta))
             \div (2 * Abs(previous_delta))
    ELSE 0

\* lines 197-207 (and 209-219): the line of one flagged service, or no line.
IssueLines(issues, key, component, label, snapshot, states, services) ==
    LET previous_delta(name) == PrevDelta(snapshot, name, key)
        current_delta(name) ==
            Delta(services[name][component], PrevScore(states, name, component))
        listed == SelectSeq(issues, LAMBDA name :
                      previous_delta(name) /= None /\ current_delta(name) /= None)
    IN  [i \in 1..Len(listed) |->
            [service  |-> listed[i],
             issue    |-> label,
             percent  |-> PercentChange(Val(previous_delta(listed[i])),
                                        Val(current_delta(listed[i]))),
             previous |-> Val(previous_delta(listed[i])),
             current  |-> Val(current_delta(listed[i]))]]

\* lines 193-221: atk_msgs + def_msgs.
ScoreLines(atk_issues, def_issues, snapshot, states, services) ==
    IssueLines(atk_issues, "attack_delta", "attack", "ATTACK",
               snapshot, states, services)
    \o IssueLines(def_issues, "defense_delta", "defense", "DEFENSE",
                  snapshot, states, services)

ScoreMessage(lines) == [kind |-> "score", lines |-> lines]

\* No message is awaiting its send.
NoMessage == [kind |-> "none", lines |-> <<>>]

\* lines 51-60: what one call of send_discord_message can meet.
SendOutcomes == {"delivered", "channel_missing", "send_raises"}

(***************************************************************************)
(* The monitor loop.                                                       *)
(***************************************************************************)
Init ==
    /\ last_service_states = Empty
    /\ prev_deltas = Empty
    /\ last_tick = NoTick
    /\ pc = "fetch"
    /\ CurrTick = NoTick
    /\ current_team_services = Empty
    /\ current_service_states = Empty
    /\ prev_deltas_snapshot = Empty
    /\ faulty_services = <<>>
    /\ attack_issue_services = <<>>
    /\ defense_issue_services = <<>>
    /\ message = NoMessage
    /\ sent = <<>>
    /\ raised = "nothing"
    /\ tick_services = Empty
    /\ repeat_poll = FALSE
    /\ seen = {}
    /\ processed = {}
    /\ replay = [states |-> Empty, deltas |-> Empty, messages |-> <<>>,
                 same |-> TRUE]
    /\ task = 1
    /\ parked = Empty

\* An exception leaves monitor_services: the task ends.
Crash(where) ==
    /\ pc' = "crashed"
    /\ raised' = where

\* lines 65-80: the fetch raises; every handler calls log_error and would
\* then return None.
FetchError ==
    /\ pc = "fetch"
    /\ IF log_error_raises
       THEN Crash("fetch")
       ELSE pc' = "sleep" /\ raised' = raised
    /\ UNCHANGED <<last_service_states, prev_deltas, last_tick, CurrTick,
                   current_team_services, current_service_states,
                   prev_deltas_snapshot, faulty_services, attack_issue_services,
                   defense_issue_services, message, sent, tick_services,
                   repeat_poll, seen, processed, replay, task, parked>>

\* lines 93-97: the fetch returns None or {}.
FetchNoData ==
    /\ pc = "fetch"
    /\ \E team_data \in TeamDatas :
          /\ NoData(team_data)
          /\ pc' = "sleep"
    /\ UNCHANGED <<last_service_states, prev_deltas, last_tick, CurrTick,
                   current_team_services, current_service_states,
                   prev_deltas_snapshot, faulty_services, attack_issue_services,
                   defense_issue_services, message, sent, raised,
                   tick_services, repeat_poll, seen, processed, replay, task,
                   parked>>

\* lines 98-103: the payload has a tick key over no services.
FetchNoServices ==
    /\ pc = "fetch"
    /\ \E team_data \in TeamDatas :
          /\ ~NoData(team_data)
          /\ NoServices(team_data[FirstKey(team_data)])
          /\ CurrTick' = FirstKey(team_data)
          /\ current_team_services' = team_data[FirstKey(team_data)]
          /\ repeat_poll' = (FirstKey(team_data) = last_tick)
          /\ pc' = "sleep"
    /\ UNCHANGED <<last_service_states, prev_deltas, last_tick,
                   current_service_states, prev_deltas_snapshot,
                   faulty_services, attack_issue_services,
                   defense_issue_services, message, sent, raised,
                   tick_services, seen, processed, replay, task, parked>>

\* The task runs on from `position` to its next await.  Lines 183-190 build
\* the service-down message and await its send when a service is faulty,
\* lines 193-222 build the score message and await its send when it has a
\* line; otherwise lines 224-228 replace the baseline by `states` and sleep.
\* The snapshot is dead once the score lines are built and returns to its
\* initial value.
RunOn(position, faulty, lines, states, snapshot, services) ==
    IF position = "down" /\ faulty /= <<>>
    THEN /\ pc' = "send_down"
         /\ message' = DownMessage(faulty, services)
         /\ prev_deltas_snapshot' = snapshot
         /\ last_service_states' = last_service_states
    ELSE IF position \in {"down", "score"} /\ lines /= <<>>
    THEN /\ pc' = "send_score"
         /\ message' = ScoreMessage(lines)
         /\ prev_deltas_snapshot' = snapshot
         /\ last_service_states' = last_service_states
    ELSE /\ pc' = "sleep"
         /\ message' = NoMessage
         /\ prev_deltas_snapshot' = Empty
         /\ last_service_states' = states

\* lines 183-222: the messages of one iteration whose sends all succeed.
Messages(faulty, lines, services) ==
    (IF faulty /= <<>> THEN <<DownMessage(faulty, services)>> ELSE <<>>)
    \o (IF lines /= <<>> THEN <<ScoreMessage(lines)>> ELSE <<>>)

\* lines 111-225 in a second run of monitor_services, started from fresh
\* state and polled the processed ticks of this run only, each once, with
\* every send delivered: r holds its last_service_states, its prev_deltas
\* and the messages of its last iteration.  Its new-tick branch leaves
\* current_service_states empty as well, which line 225 stores.
ReplayTick(r, services) ==
    LET faulty == FaultyServices(r.states, services)
        atk_issues == AttackIssues(r.deltas, r.states, services)
        def_issues == DefenseIssues(r.deltas, r.states, services)
    IN  [states   |-> Empty,
         deltas   |-> UpdatedDeltas(r.deltas, r.states, services),
         messages |-> Messages(faulty,
                               ScoreLines(atk_issues, def_issues, r.deltas,
                                          r.states, services),
                               services),
         same     |-> r.same]

\* lines 98-162, then 181-228 up to the next await: a payload with a new
\* tick id is compared and recorded.  A ZeroDivisionError at line 133 or 142
\* leaves monitor_services; what the interrupted pass had written to the
\* locals dies with the task.  `history` names what the step also records:
\* "payload" the payload in tick_services, "tick" the tick id in processed,
\* "replay" the same tick in the second run of replay.
ProcessTickWith(history) ==
    /\ pc = "fetch"
    /\ \E team_data \in TeamDatas :
          /\ ~NoData(team_data)
          /\ LET tick == FirstKey(team_data)
                 services == team_data[tick]
                 faulty == FaultyServices(last_service_states, services)
                 atk_issues ==
                     AttackIssues(prev_deltas, last_service_states, services)
                 def_issues ==
                     DefenseIssues(prev_deltas, last_service_states, services)
             IN  /\ ~NoServices(services)
                 /\ TickChanged(last_tick, tick)
                 /\ seen' = seen \cup DOMAIN services
                 /\ processed' =
                        IF "tick" \in history
                        THEN processed \cup {tick} ELSE processed
                 /\ replay' =
                        IF "replay" \in history
                        THEN ReplayTick(replay, services) ELSE replay
                 /\ IF DividesByZero(prev_deltas, last_service_states, services)
                    THEN /\ Crash("division")
                         /\ UNCHANGED <<last_service_states, prev_deltas,
                                        last_tick, CurrTick,
                                        current_team_services,
                                        current_service_states,
                                        prev_deltas_snapshot, faulty_services,
                                        attack_issue_services,
                                        defense_issue_services, message,
                                        tick_services, repeat_poll>>
                    ELSE /\ CurrTick' = tick
                         /\ current_team_services' = services
                         /\ current_service_states' = Empty
                         /\ prev_deltas' =
                                UpdatedDeltas(prev_deltas, last_service_states,
                                              services)
                         /\ faulty_services' = faulty
                         /\ attack_issue_services' = atk_issues
                         /\ defense_issue_services' = def_issues
                         /\ last_tick' = tick
                         /\ repeat_poll' = (tick = last_tick)
                         /\ tick_services' =
                                IF "payload" \in history /\ tick /= last_tick
                                THEN services ELSE tick_services
                         /\ raised' = raised
                         /\ RunOn("down", faulty,
                                  ScoreLines(atk_issues, def_issues, prev_deltas,
                                             last_service_states, services),
                                  Empty, prev_deltas, services)
    /\ UNCHANGED <<sent, task, parked>>

ProcessTick == ProcessTickWith({})

ProcessTickRecorded == ProcessTickWith({"payload", "replay"})

ProcessTickNoted == ProcessTickWith({"tick"})

\* lines 98-110 and 163-178, then 181-228 up to the next await: a payload
\* that repeats last_tick is only logged.
RepeatPoll ==
    /\ pc = "fetch"
    /\ \E team_data \in TeamDatas :
          /\ ~NoData(team_data)
          /\ LET tick == FirstKey(team_data)
                 services == team_data[tick]
             IN  /\ ~NoServices(services)
                 /\ ~TickChanged(last_tick, tick)
                 /\ CurrTick' = tick
                 /\ current_team_services' = services
                 /\ current_service_states' = RepeatStates(services)
                 /\ repeat_poll' = (tick = last_tick)
                 /\ seen' = seen \cup DOMAIN services
                 /\ replay' =
                        [replay EXCEPT
                            !.same = @ /\ services = tick_services]
                 /\ faulty_services' =
                        RepeatFaulty(last_service_states, services)
                 /\ RunOn("down", RepeatFaulty(last_service_states, services),
                          <<>>, RepeatStates(services), prev_deltas_snapshot,
                          services)
    /\ attack_issue_services' = <<>>
    /\ defense_issue_services' = <<>>
    /\ UNCHANGED <<prev_deltas, last_tick, sent, raised, tick_services,
                   processed, task, parked>>

\* atk_msgs + def_msgs as lines 193-219 build them in the state in hand.
CurrentScoreLines ==
    ScoreLines(attack_issue_services, defense_issue_services,
               prev_deltas_snapshot, last_service_states, current_team_services)

\* lines 49-60: send_discord_message(message) ends; the task then runs on from
\* `position`.  A missing channel and a send that raises both reach log_error.
Send(outcome, position) ==
    IF outcome = "delivered" \/ ~log_error_raises
    THEN /\ sent' = IF outcome = "delivered" THEN Append(sent, message) ELSE sent
         /\ raised' = raised
         /\ RunOn(position, faulty_services, CurrentScoreLines,
                  current_service_states, prev_deltas_snapshot,
                  current_team_services)
    ELSE /\ sent' = sent
         /\ Crash("send")
         /\ UNCHANGED <<last_service_states, prev_deltas_snapshot, message>>

\* line 190: the send of the service-down message ends; lines 192-228 follow
\* up to the next await.
SendDown ==
    /\ pc = "send_down"
    /\ \E outcome \in SendOutcomes : Send(outcome, "score")
    /\ UNCHANGED <<prev_deltas, last_tick, CurrTick, current_team_services,
                   current_service_states, faulty_services,
                   attack_issue_services, defense_issue_services,
                   tick_services, repeat_poll, seen, processed, replay, task,
                   parked>>

\* line 222: the send of the combined score message ends; lines 224-228
\* follow.
SendScore ==
    /\ pc = "send_score"
    /\ \E outcome \in SendOutcomes : Send(outcome, "update")
    /\ UNCHANGED <<prev_deltas, last_tick, CurrTick, current_team_services,
                   current_service_states, faulty_services,
                   attack_issue_services, defense_issue_services,
                   tick_services, repeat_poll, seen, processed, replay, task,
                   parked>>

\* lines 96, 102, 228: the sleep ends and the loop starts over.  The locals
\* of the finished iteration are dead (each is assigned again before it is
\* read) and return to their initial values; `sent` starts a new iteration.
Sleep ==
    /\ pc = "sleep"
    /\ pc' = "fetch"
    /\ CurrTick' = NoTick
    /\ current_team_services' = Empty
    /\ current_service_states' = Empty
    /\ prev_deltas_snapshot' = Empty
    /\ faulty_services' = <<>>
    /\ attack_issue_services' = <<>>
    /\ defense_issue_services' = <<>>
    /\ sent' = <<>>
    /\ repeat_poll' = FALSE
    /\ UNCHANGED <<last_service_states, prev_deltas, last_tick, message,
                   raised, tick_services, seen, processed, replay, task,
                   parked>>

\* One ready event starts one monitor_services task, which is the state Init
\* describes; no further ready event arrives.
Next ==
    \/ FetchError
    \/ FetchNoData
    \/ FetchNoServices
    \/ ProcessTick
    \/ RepeatPoll
    \/ SendDown
    \/ SendScore
    \/ Sleep

Spec == Init /\ [][Next]_vars

\* The same loop, with the payload of the last processed tick recorded in
\* tick_services and the processed ticks replayed in replay.
NextHistory ==
    \/ FetchError
    \/ FetchNoData
    \/ FetchNoServices
    \/ ProcessTickRecorded
    \/ RepeatPoll
    \/ SendDown
    \/ SendScore
    \/ Sleep

SpecHistory == Init /\ [][NextHistory]_vars

\* The same loop, with the processed tick ids recorded in processed.
NextTicks ==
    \/ FetchError
    \/ FetchNoData
    \/ FetchNoServices
    \/ ProcessTickNoted
    \/ RepeatPoll
    \/ SendDown
    \/ SendScore
    \/ Sleep

SpecTicks == Init /\ [][NextTicks]_vars

(***************************************************************************)
(* Ready events (lines 230-240).  discord.py dispatches on_ready whenever  *)
(* the gateway session is (re-)established, so the event can arrive more   *)
(* than once in the life of the process.  Each on_ready creates a          *)
(* monitor_services task on the one event loop; the tasks share the global *)
(* last_service_states, each has its own locals, and the loop moves from   *)
(* one task to another only where the running task awaits.  Every value of *)
(* pc is an await (the fetch, a send, the sleep) or the end of the task.   *)
(***************************************************************************)
\* The monitor_services tasks one process creates.
MaxTasks == 2

\* The locals of the task in hand.
Frame ==
    [prev_deltas            |-> prev_deltas,
     last_tick              |-> last_tick,
     pc                     |-> pc,
     CurrTick               |-> CurrTick,
     current_team_services  |-> current_team_services,
     current_service_states |-> current_service_states,
     prev_deltas_snapshot   |-> prev_deltas_snapshot,
     faulty_services        |-> faulty_services,
     attack_issue_services  |-> attack_issue_services,
     defense_issue_services |-> defense_issue_services,
     message                |-> message,
     sent                   |-> sent,
     raised                 |-> raised,
     tick_services          |-> tick_services,
     repeat_poll            |-> repeat_poll]

\* lines 84-93: the locals of a task that has just reached its first fetch.
InitialFrame ==
    [prev_deltas            |-> Empty,
     last_tick              |-> NoTick,
     pc                     |-> "fetch",
     CurrTick               |-> NoTick,
     current_team_services  |-> Empty,
     current_service_states |-> Empty,
     prev_deltas_snapshot   |-> Empty,
     faulty_services        |-> <<>>,
     attack_issue_services  |-> <<>>,
     defense_issue_services |-> <<>>,
     message                |-> NoMessage,
     sent                   |-> <<>>,
     raised                 |-> "nothing",
     tick_services          |-> Empty,
     repeat_poll            |-> FALSE]

\* The monitor_services tasks created so far.
Tasks == {task} \cup DOMAIN parked

\* lines 231-240: on_ready logs and creates one more monitor_services task,
\* whatever tasks exist already.
OnReady ==
    /\ Cardinality(Tasks) < MaxTasks
    /\ parked' = (Cardinality(Tasks) + 1 :> InitialFrame) @@ parked
    /\ UNCHANGED <<last_service_states, prev_deltas, last_tick, pc, CurrTick,
                   current_team_services, current_service_states,
                   prev_deltas_snapshot, faulty_services, attack_issue_services,
                   defense_issue_services, message, sent, raised,
                   tick_services, repeat_poll, seen, processed, replay, task>>

\* The event loop leaves the task in hand at its await and resumes another.
SwitchTask ==
    \E other \in DOMAIN parked :
       /\ task' = other
       /\ parked' =
              [t \in (DOMAIN parked \ {other}) \cup {task} |->
                  IF t = task THEN Frame ELSE parked[t]]
       /\ prev_deltas' = parked[other].prev_deltas
       /\ last_tick' = parked[other].last_tick
       /\ pc' = parked[other].pc
       /\ CurrTick' = parked[other].CurrTick
       /\ current_team_services' = parked[other].current_team_services
       /\ current_service_states' = parked[other].current_service_states
       /\ prev_deltas_snapshot' = parked[other].prev_deltas_snapshot
       /\ faulty_services' = parked[other].faulty_services
       /\ attack_issue_services' = parked[other].attack_issue_services
       /\ defense_issue_services' = parked[other].defense_issue_services
       /\ message' = parked[other].message
       /\ sent' = parked[other].sent
       /\ raised' = parked[other].raised
       /\ tick_services' = parked[other].tick_services
       /\ repeat_poll' = parked[other].repeat_poll
       /\ UNCHANGED <<last_service_states, seen, processed, replay>>

\* SpecReady explores the interleavings of the tasks on a part of the polls:
\* the task of the first ready event is polled both services with one and
\* the same reading, none OFFLINE; a task created later is polled service b
\* alone, in its first reading.
ReadyPayloads(t) ==
    {p \in Payloads :
        IF t = 1
        THEN /\ DOMAIN p \in {{}, Services}
             /\ \A name \in DOMAIN p :
                   p[name].checker /= "OFFLINE" /\ p[name] = p["a"]
        ELSE /\ DOMAIN p \subseteq {"b"}
             /\ \A name \in DOMAIN p : p[name].checker = "SUCCESS"}

\* A step of the task in hand on a payload of ReadyPayloads.
TaskStep ==
    /\ Next
    /\ current_team_services' \in ReadyPayloads(task)

NextReady ==
    \/ OnReady
    \/ SwitchTask
    \/ TaskStep

SpecReady == Init /\ [][NextReady]_vars

(***************************************************************************)
(* Properties.                                                             *)
(***************************************************************************)
\* The elements of a list.
Range(list) == {list[i] : i \in 1..Len(list)}

\* The stored state of a service as the payload entry `info` gives it.
StateOf(info) ==
    [checker |-> info.checker, attack |-> info.attack, defense |-> info.defense]

\* This step takes a payload with services and a tick id other than last_tick.
PolledNewTick ==
    /\ task' = task
    /\ pc = "fetch"
    /\ current_team_services' /= Empty
    /\ CurrTick' /= last_tick

\* This step belongs to an iteration whose payload repeats last_tick.
RepeatedPollStep ==
    /\ task' = task
    /\ \/ /\ pc = "fetch"
          /\ current_team_services' /= Empty
          /\ CurrTick' = last_tick
       \/ pc \in {"send_down", "send_score"} /\ repeat_poll

\* This step is a fetch that returns None, {} or a payload without services.
NoDataStep ==
    /\ task' = task
    /\ pc = "fetch"
    /\ raised' = "nothing"
    /\ current_team_services' = Empty

\* C1: when a payload with a new tick id is processed, every service that was
\* also in the payload of the preceding processed tick gets attack_delta =
\* current attack - attack at that tick and defense_delta likewise, whether or
\* not repeated polls came in between; a delta is None only for a service
\* that has no delta record yet (first sighting).
C1_DeltasAgainstPrecedingTick ==
    [][PolledNewTick =>
          \A name \in DOMAIN current_team_services' :
             /\ name \in DOMAIN tick_services =>
                   /\ prev_deltas'[name].attack_delta =
                         Some(current_team_services'[name].attack
                                 - tick_services[name].attack)
                   /\ prev_deltas'[name].defense_delta =
                         Some(current_team_services'[name].defense
                                 - tick_services[name].defense)
             /\ (\/ prev_deltas'[name].attack_delta = None
                 \/ prev_deltas'[name].defense_delta = None)
                   => name \notin DOMAIN prev_deltas]_vars

\* C2: once an iteration that processed a new tick id has stored its states,
\* last_service_states holds the checker status, attack and defense score of
\* every service of the payload, and last_tick is the payload's tick id.
C2_BaselineHoldsProcessedTick ==
    (pc = "sleep" /\ current_team_services /= Empty /\ ~repeat_poll) =>
        /\ \A name \in DOMAIN current_team_services :
              /\ name \in DOMAIN last_service_states
              /\ last_service_states[name] =
                    StateOf(current_team_services[name])
        /\ last_tick = CurrTick

\* C3: no step of an iteration whose payload repeats last_tick changes
\* last_service_states, prev_deltas or last_tick.
C3_RepeatLeavesBaseline ==
    [][RepeatedPollStep =>
          UNCHANGED <<last_service_states, prev_deltas, last_tick>>]_vars

\* C4: an iteration whose payload repeats last_tick sends nothing: it has
\* delivered no message and it never waits for a send.
C4_RepeatSendsNothing ==
    repeat_poll => (sent = <<>> /\ pc \notin {"send_down", "send_score"})

\* C4 witness: a repeated poll has stored its states, its payload shows a
\* service OFFLINE that has a recorded attack delta of 20, nothing was sent.
C4_Witness ==
    /\ pc = "sleep"
    /\ repeat_poll
    /\ \E name \in DOMAIN current_team_services :
          /\ current_team_services[name].checker = "OFFLINE"
          /\ name \in DOMAIN prev_deltas
          /\ prev_deltas[name].attack_delta = Some(20)
    /\ sent = <<>>

\* C5: on a newly processed tick a service is put in the service-down alert
\* if and only if its checker status at the preceding processed tick was
\* SUCCESS or RECOVERING and its status now is OFFLINE or MUMBLE.
C5_DownIffCheckerRegressed ==
    [][PolledNewTick =>
          \A name \in DOMAIN current_team_services' :
             name \in Range(faulty_services') <=>
                /\ name \in DOMAIN tick_services
                /\ tick_services[name].checker \in {"SUCCESS", "RECOVERING"}
                /\ current_team_services'[name].checker
                      \in {"OFFLINE", "MUMBLE"}]_vars

\* The regression rule as C6 words it.
C6_Regression(previousDelta, currentDelta) ==
    /\ previousDelta /= None
    /\ currentDelta /= None
    /\ Val(previousDelta) /= 0
    /\ Val(currentDelta) < Val(previousDelta)
    /\ ThresholdDen * Abs(Val(currentDelta) - Val(previousDelta))
          >= ThresholdNum * Abs(Val(previousDelta))
    /\ Abs(Val(previousDelta)) >= ATK_DEF_MIN_SCORE_THRESHOLD

\* C6: on a newly processed tick a service is flagged for attack regression
\* if and only if its recorded previous attack delta and its attack delta of
\* this tick both exist, the previous one is not 0, the current one is
\* smaller, |current - previous| / |previous| >= the percentage threshold and
\* |previous| >= the minimum threshold; defense likewise, on its own deltas.
C6_FlaggedIffRegression ==
    [][PolledNewTick =>
          \A name \in DOMAIN current_team_services' :
             /\ name \in Range(attack_issue_services') <=>
                   C6_Regression(PrevDelta(prev_deltas, name, "attack_delta"),
                                 prev_deltas'[name].attack_delta)
             /\ name \in Range(defense_issue_services') <=>
                   C6_Regression(PrevDelta(prev_deltas, name, "defense_delta"),
                                 prev_deltas'[name].defense_delta)]_vars

\* C6 witness: service a goes from an attack delta of 20 to 5 and is flagged
\* for attack only; service b goes from 5 to -5 and is not flagged for
\* attack, but is flagged for defense.
C6_Witness ==
    /\ attack_issue_services = <<"a">>
    /\ defense_issue_services = <<"b">>
    /\ PrevDelta(prev_deltas_snapshot, "a", "attack_delta") = Some(20)
    /\ PrevDelta(prev_deltas, "a", "attack_delta") = Some(5)
    /\ PrevDelta(prev_deltas_snapshot, "b", "attack_delta") = Some(5)
    /\ PrevDelta(prev_deltas, "b", "attack_delta") = Some(-5)

\* C7: when a newly processed tick compares a service's delta of this tick
\* against a previous delta, the previous delta in the snapshot is the one
\* recorded for the service at the preceding processed tick: a service that
\* was not in that tick's payload has no previous delta to compare against.
C7_PreviousDeltaFromPrecedingTick ==
    [][(PolledNewTick /\ pc' \in {"send_down", "send_score"}) =>
          \A name \in DOMAIN current_team_services' :
             \A key \in {"attack_delta", "defense_delta"} :
                prev_deltas'[name][key] /= None =>
                   PrevDelta(prev_deltas_snapshot', name, key) =
                      IF name \in DOMAIN tick_services
                      THEN PrevDelta(prev_deltas, name, key)
                      ELSE None]_vars

\* C8: a fetch that raises does not end the monitor task.
C8_FetchErrorKeepsLoop ==
    ~(pc = "crashed" /\ raised = "fetch")

\* C9: a send that fails does not end the monitor task.
C9_SendErrorKeepsLoop ==
    ~(pc = "crashed" /\ raised = "send")

PcOf(t) == IF t = task THEN pc ELSE parked[t].pc

\* The monitor_services tasks that have not ended.
ActiveTasks == {t \in Tasks : PcOf(t) /= "crashed"}

\* C11: whatever ready events arrive, at most one monitor loop is active, so
\* that no two comparison cycles overlap and last_service_states is read and
\* written by one loop only.
C11_SingleMonitorLoop ==
    Cardinality(ActiveTasks) <= 1

\* C12: a service that has a delta record (it was in the payload of a
\* processed tick) keeps the record in every later state and has a stored
\* state whenever the iteration in hand has stored its states; a processed
\* payload that lacks the service leaves its record and its stored state as
\* they were.
C12_SeenServiceKeepsStateAndDelta ==
    [][\A name \in DOMAIN prev_deltas :
          /\ name \in DOMAIN prev_deltas'
          /\ pc' \in {"fetch", "sleep"} => name \in DOMAIN last_service_states'
          /\ (pc = "fetch" /\ name \notin DOMAIN current_team_services') =>
                /\ prev_deltas'[name] = prev_deltas[name]
                /\ name \in DOMAIN last_service_states =>
                      /\ name \in DOMAIN last_service_states'
                      /\ last_service_states'[name] = last_service_states[name]]_vars

\* The services the lines of a message name.
LineServices(msg) == {msg.lines[i].service : i \in 1..Len(msg.lines)}

\* The services one of the three lists of the comparison pass holds.
Flagged ==
    Range(faulty_services) \cup Range(attack_issue_services)
        \cup Range(defense_issue_services)

\* C14: a poll that shows a service name no earlier poll has shown records
\* no delta for it (on a new tick both its deltas are None, on a repeated
\* poll it gets no record) and puts it in none of the three lists; and the
\* message a step builds names services of the lists only, so no alert
\* names it, whatever its checker status and scores.
C14_FirstObservationSilent ==
    [][/\ (task' = task /\ pc = "fetch" /\ current_team_services' /= Empty) =>
             \A name \in DOMAIN current_team_services' \ seen :
                /\ name \in DOMAIN prev_deltas' =>
                      prev_deltas'[name] =
                         [attack_delta |-> None, defense_delta |-> None]
                /\ CurrTick' /= last_tick => name \in DOMAIN prev_deltas'
                /\ name \notin Flagged'
       /\ LineServices(message') \subseteq Flagged']_vars

\* C14 witness: service b, absent from the delta records before this tick,
\* is OFFLINE in the processed payload; both its deltas are None and the
\* service-down message built names a and not b.
C14_Witness ==
    /\ pc = "send_down"
    /\ "b" \in DOMAIN current_team_services
    /\ current_team_services["b"].checker = "OFFLINE"
    /\ "b" \notin DOMAIN prev_deltas_snapshot
    /\ prev_deltas["b"] = [attack_delta |-> None, defense_delta |-> None]
    /\ LineServices(message) = {"a"}

\* C15: no division by zero is performed.  No task ends in a
\* ZeroDivisionError; on a newly processed tick a service whose recorded
\* previous delta is exactly 0 is not flagged for that delta, whatever its
\* delta of this tick; and no line of a score message reports a previous
\* delta of 0, so the percent of a line is never computed over 0.
C15_NoDivisionByZero ==
    [][/\ raised' /= "division"
       /\ PolledNewTick =>
             \A name \in DOMAIN current_team_services' :
                /\ PrevDelta(prev_deltas, name, "attack_delta") = Some(0)
                      => name \notin Range(attack_issue_services')
                /\ PrevDelta(prev_deltas, name, "defense_delta") = Some(0)
                      => name \notin Range(defense_issue_services')
       /\ message'.kind = "score" =>
             \A i \in 1..Len(message'.lines) :
                message'.lines[i].previous /= 0]_vars

\* C15 witness: on a processed tick the attack delta of a fell from a
\* recorded 0 to -20; a is not flagged and the task goes on to send the
\* service-down message for b.
C15_Witness ==
    /\ pc = "send_down"
    /\ PrevDelta(prev_deltas_snapshot, "a", "attack_delta") = Some(0)
    /\ PrevDelta(prev_deltas, "a", "attack_delta") = Some(-20)
    /\ attack_issue_services = <<>>
    /\ faulty_services = <<"b">>

\* This step takes a payload with services and goes on.
PolledServices ==
    /\ task' = task
    /\ pc = "fetch"
    /\ current_team_services' /= Empty
    /\ pc' /= "crashed"

\* This step runs no comparison pass: it recomputes no delta and generates
\* no alert.
NotCompared ==
    /\ prev_deltas' = prev_deltas
    /\ Flagged' = {}
    /\ message' = NoMessage

\* C16 as stated: a tick id on which the comparison pass has run triggers no
\* comparison processing when a later poll returns it, also after a
\* different tick id was processed in between.
C16_ProcessedAtMostOnce ==
    [][(PolledServices /\ CurrTick' \in processed) => NotCompared]_vars

\* C16 amended: a poll triggers comparison processing exactly when its tick
\* id differs from last_tick, the id processed last.  A poll that returns
\* last_tick again recomputes no delta and generates no alert; a poll that
\* returns any other id, processed before or not, gets the delta of every
\* service of its payload recomputed against last_service_states and its id
\* stored in last_tick.
C16_ProcessedWhenTickChanges ==
    [][PolledServices =>
          IF CurrTick' = last_tick
          THEN NotCompared /\ UNCHANGED <<last_tick, processed>>
          ELSE /\ \A name \in DOMAIN current_team_services' :
                     prev_deltas'[name] =
                        DeltaRecord(last_service_states,
                                    current_team_services', name)
               /\ last_tick' = CurrTick'
               /\ processed' = processed \cup {CurrTick'}]_vars

\* C16 witness: the run has processed the tick ids 1 and 2 only and is in
\* its third comparison pass at least (a compares an attack delta of 5 with
\* a recorded one of 20, which takes two earlier passes), so one of the ids
\* was processed again after the other.
C16_Witness ==
    /\ processed = {1, 2}
    /\ pc = "send_score"
    /\ ~repeat_poll
    /\ PrevDelta(prev_deltas_snapshot, "a", "attack_delta") = Some(20)
    /\ PrevDelta(prev_deltas, "a", "attack_delta") = Some(5)
    /\ attack_issue_services = <<"a">>

\* The messages the iteration in hand has passed to send_discord_message:
\* those delivered, then the one awaiting its send.
Handed == IF message = NoMessage THEN sent ELSE Append(sent, message)

\* The services the lines of a message name, line by line.
LineOrder(msg) == [i \in 1..Len(msg.lines) |-> msg.lines[i].service]

\* C17: an iteration passes at most two messages to the channel.  Each has
\* at least one line; a service-down message comes first and has one line
\* per service of faulty_services, in order; a score message comes last and
\* has one ATTACK line per service of attack_issue_services followed by one
\* DEFENSE line per service of defense_issue_services; and a step of the
\* task that changes last_service_states ends with no message left to send.
C17_AlertsOfOneTick ==
    [][/\ Len(Handed') <= 2
       /\ \A i \in 1..Len(Handed') :
             LET msg == Handed'[i]
             IN  /\ msg.lines /= <<>>
                 /\ msg.kind = "down" =>
                       /\ i = 1
                       /\ LineOrder(msg) = faulty_services'
                 /\ msg.kind = "score" =>
                       /\ i = 2 => Handed'[1].kind = "down"
                       /\ LineOrder(msg) =
                             attack_issue_services' \o defense_issue_services'
                       /\ \A j \in 1..Len(msg.lines) :
                             msg.lines[j].issue =
                                IF j <= Len(attack_issue_services')
                                THEN "ATTACK" ELSE "DEFENSE"
       /\ (task' = task /\ last_service_states' /= last_service_states) =>
             (pc' = "sleep" /\ message' = NoMessage)]_vars

\* C18: every line of a score message awaiting its send reports, for its
\* service, the previous delta of the snapshot and the delta the comparison
\* pass computed and recorded on this tick, the two values that qualified
\* the service; its percent is 100 * |current - previous| / |previous| to
\* the nearest hundredth, 75.00 for 20 -> 5.
C18_LineReportsComparedValues ==
    (pc = "send_score" /\ message.kind = "score") =>
        \A i \in 1..Len(message.lines) :
           LET line == message.lines[i]
               key == IF line.issue = "ATTACK"
                      THEN "attack_delta" ELSE "defense_delta"
           IN  /\ Some(line.previous) =
                     PrevDelta(prev_deltas_snapshot, line.service, key)
               /\ Some(line.current) = PrevDelta(prev_deltas, line.service, key)
               /\ DropQualifies(Some(line.current), Some(line.previous))
               /\ Abs(2 * Abs(line.previous) * line.percent
                         - 2 * 10000 * Abs(line.current - line.previous))
                     <= Abs(line.previous)
               /\ (line.previous = 20 /\ line.current = 5) => line.percent = 7500

\* C13: the alert messages are a function of the processed ticks alone.  The
\* run in hand and the run of replay are polled the same sequence of distinct
\* ticks from fresh state; the run in hand is polled repeats as well.  While
\* every repeated poll returns the payload of the tick it repeats, an
\* iteration that has processed a tick and sent its messages has sent the
\* messages the other run sends on that tick.
C13_AlertsFunctionOfTicks ==
    (/\ pc = "sleep"
     /\ current_team_services /= Empty
     /\ ~repeat_poll
     /\ replay.same) => sent = replay.messages
====
